---- MODULE Spec2Model ----
(***************************************************************************)
(* State-machine model of src/src/main.rs (aaratha/synth-rs): the control  *)
(* loop (update, mouse and key handlers), the closures it sends to the     *)
(* audio stream, and the render callback `audio`.                          *)
(*                                                                         *)
(* Numbers.  Time is counted in units of 1/(2*HalfSecondUnits) second, so  *)
(* that beat_duration = 60/bpm is (120*HalfSecondUnits)/bpm units.         *)
(* Sequencer multipliers and the envelope's attack, decay, sustain and     *)
(* release are kept in tenths (0.8 -> 8), envelope values, the volume and  *)
(* samples in thousandths (1.0 -> 1000), hz in Hz, and phase in units of   *)
(* 1/PhaseSteps of a turn.  Floating-point rounding is not modelled.       *)
(*                                                                         *)
(* Cards.  Of a card's geometry only the side of the chain threshold       *)
(* (card.y >= win.bottom() + win.h()/3.0 : 1, else 0) of y and y_targ is   *)
(* kept; x, rotation, scale, start_time and the hand are not modelled.     *)
(*                                                                         *)
(* Stream.  nannou_audio's Stream is not part of the sources; send, the    *)
(* draining of the sent closures before a render and pause/play are        *)
(* modelled after sections 4.6 and 5 of the specification.  A send may     *)
(* return Err at any time.                                                 *)
(***************************************************************************)
EXTENDS Integers, Sequences, FiniteSets, TLC

VARIABLES
    cards,                  \* Model.cards
    chain,                  \* Model.chain (clones of cards)
    is_mouse_pressed,       \* Model.is_mouse_pressed
    is_updating,            \* Model.is_updating
    selected_card,          \* Model.selected_card, 0 for None, else index 1..4
    bpm,                    \* Model.bpm
    beat_time,              \* Model.beat_time
    time_since_last_update, \* local of update while the beat clock runs, else 0
    pc,                     \* position of the control thread inside update;
                            \* "next_value": it panicked indexing the sequence
    panicked,               \* an unwrap() of the control thread has panicked
    queue,                  \* closures sent to the stream, not yet applied
    is_playing,             \* stream.is_playing()
    audio,                  \* the Audio struct owned by the render thread
    volume,                 \* local of the running render callback
    frames_left,            \* frames of the running buffer still to write
    sample,                 \* the value last written to the channels
    shadow,                 \* history: playing/hz/envelope after all sent commands
    beat_reset,             \* history: the last clock update took the reset branch
    seq_advances,           \* history: number of next_value calls, modulo 4
    presses                 \* history: number of mouse_pressed calls

vars == <<cards, chain, is_mouse_pressed, is_updating, selected_card, bpm,
          beat_time, time_since_last_update, pc, panicked, queue, is_playing,
          audio, volume, frames_left, sample, shadow, beat_reset,
          seq_advances, presses>>

ui == <<cards, chain, is_mouse_pressed, is_updating, selected_card>>
clock == <<bpm, beat_time, time_since_last_update, beat_reset>>
render == <<audio, volume, frames_left, sample>>
history == <<shadow, seq_advances, presses>>

(***************************************************************************)
(* Bounds of the model.                                                    *)
(***************************************************************************)
HalfSecondUnits == 2     \* time units in half a second
MaxElapsed == 3          \* largest time between two updates, in time units
MaxQueue == 3            \* most closures waiting in the stream
MaxPresses == 1          \* most mouse presses of a run
MaxDrift == 1            \* how far hz may drift from a sequencer frequency
FramesPerBuffer == 2     \* frames of one buffer
PhaseSteps == 4          \* resolution of phase: steps per turn
SampleRate == 1000       \* buffer.sample_rate()
DelayBufferLen == 2      \* length of the Delay card's buffer
MaxNegativeHz == 2       \* how far below 0 a long drift of hz is followed

Min(a, b) == IF a < b THEN a ELSE b

(***************************************************************************)
(* The cards built by model().                                             *)
(***************************************************************************)
OscillatorClass == [kind |-> "Oscillator"]

SequencerClass == [kind |-> "Sequencer", sequence |-> <<8, 10, 12, 10>>, step |-> 0]

EnvelopeClass ==
    [kind |-> "Envelope", attack |-> 1, decay |-> 10, sustain |-> 4, release |-> 5]

DelayClass ==
    [kind |-> "Delay", delay_time |-> 5, feedback |-> 5, wet |-> 5,
     buffer |-> [i \in 1..DelayBufferLen |-> 0], write_index |-> 0]

\* Card::new: y = y_targ = the given y, not dragging.
CardNew(y, class) == [y |-> y, y_targ |-> y, dragging |-> FALSE, class |-> class]

\* The four cards sit at y = 0, 100, 200, 300, all above the chain threshold
\* -win.h()/6.
InitCards ==
    <<CardNew(1, OscillatorClass), CardNew(1, SequencerClass),
      CardNew(1, EnvelopeClass), CardNew(1, DelayClass)>>

InitAudio == [phase |-> 0, hz |-> 440, playing |-> FALSE, envelope |-> 0]

(***************************************************************************)
(* Commands: the closures update_sound sends.                              *)
(***************************************************************************)
SetPlaying(b) == [op |-> "playing", v |-> IF b THEN 1 ELSE 0]
SetHz(mult) == [op |-> "hz", v |-> mult]
Drift(inc) == [op |-> "drift", v |-> inc]
SetEnvelope(e) == [op |-> "envelope", v |-> e]

\* ApplyCmd with a set-frequency closure that restarts the oscillator.
ApplyCmdResetPhase(a, c) ==
    CASE c.op = "playing" -> [a EXCEPT !.playing = (c.v = 1)]
      [] c.op = "hz" -> [a EXCEPT !.hz = (440 * c.v) \div 10, !.phase = 0]
      [] c.op = "drift" -> [a EXCEPT !.hz = a.hz + c.v]
      [] c.op = "envelope" -> [a EXCEPT !.envelope = c.v]

\* Running one closure on the Audio struct.
ApplyCmd(a, c) ==
    CASE c.op = "playing" -> [a EXCEPT !.playing = (c.v = 1)]
      [] c.op = "hz" -> [a EXCEPT !.hz = (440 * c.v) \div 10]
      [] c.op = "drift" -> [a EXCEPT !.hz = a.hz + c.v]
      [] c.op = "envelope" -> [a EXCEPT !.envelope = c.v]

\* Stream::send: the closure joins the closures waiting for the render thread.
Send(q, c) == Append(q, c)

\* The render thread runs the waiting closures, oldest first, on the Audio struct.
RECURSIVE Drain(_, _)
Drain(a, q) == IF q = <<>> THEN a ELSE Drain(ApplyCmd(a, Head(q)), Tail(q))

Ctl(a) == [hz |-> a.hz, playing |-> a.playing, envelope |-> a.envelope]

(***************************************************************************)
(* Sequencer::next_value.                                                  *)
(***************************************************************************)
\* next_value without the wrap of step.
NextValueNoWrap(seq) ==
    [value |-> seq.sequence[(seq.step % Len(seq.sequence)) + 1],
     seq |-> [seq EXCEPT !.step = seq.step + 1]]

NextValue(seq) ==
    [value |-> seq.sequence[seq.step + 1],
     seq |-> [seq EXCEPT !.step = (seq.step + 1) % Len(seq.sequence)]]

(***************************************************************************)
(* The beat clock of update.                                               *)
(***************************************************************************)
BeatDuration(b) == (120 * HalfSecondUnits) \div b

\* The clock with > for >=.
BeatAdvanceStrict(bt, e, B) == IF bt + e > B THEN 0 ELSE bt + e

\* The clock wrapping modulo the beat instead of resetting.
BeatAdvanceModulo(bt, e, B) == IF bt + e >= B THEN (bt + e) % B ELSE bt + e

BeatAdvance(bt, e, B) == IF bt + e >= B THEN 0 ELSE bt + e

(***************************************************************************)
(* The envelope of update_sound, in thousandths.  t is beat_time and B the *)
(* beat duration in time units; both sides of every comparison are scaled  *)
(* by 10 because attack, decay, sustain and release are tenths.            *)
(***************************************************************************)
\* The branch of the if-else chain of lines 512-522 with <= for <.
EnvelopeBranchInclusive(t, B, env) ==
    LET t10 == 10 * t
        Ba == B * env.attack
        Bd == B * env.decay
        Br == B * env.release
    IN  IF t10 <= Ba THEN "attack"
        ELSE IF t10 <= Ba + Bd THEN "decay"
        ELSE IF t10 <= Ba + Bd + Br THEN "release"
        ELSE "off"

\* The branch of the if-else chain of lines 512-522 taken at beat_time t.
EnvelopeBranch(t, B, env) ==
    LET t10 == 10 * t
        Ba == B * env.attack
        Bd == B * env.decay
        Br == B * env.release
    IN  IF t10 < Ba THEN "attack"
        ELSE IF t10 < Ba + Bd THEN "decay"
        ELSE IF t10 < Ba + Bd + Br THEN "release"
        ELSE "off"

\* What the taken branch divides by: beat_duration * attack, decay or
\* release, scaled by 10; the last branch divides by nothing (1).
EnvelopeDivisor(t, B, env) ==
    LET branch == EnvelopeBranch(t, B, env)
    IN  CASE branch = "attack" -> B * env.attack
          [] branch = "decay" -> B * env.decay
          [] branch = "release" -> B * env.release
          [] OTHER -> 1

\* An f32 division; x / 0.0 is not a number of [0, 1] (inf or NaN).
Infinity == 1000000
Div(x, y) == IF y = 0 THEN Infinity ELSE x \div y

\* The envelope with a decay that stays at full level.
EnvelopeValueFlatDecay(t, B, env) ==
    LET t10 == 10 * t
        Ba == B * env.attack
        Bd == B * env.decay
        Br == B * env.release
        branch == EnvelopeBranch(t, B, env)
    IN  CASE branch = "attack" -> Min(Div(1000 * t10, Ba), 1000)
          [] branch = "decay" -> 1000
          [] branch = "release" ->
               Div(100 * env.sustain * (Br - (t10 - Ba - Bd)), Br)
          [] OTHER -> 0

EnvelopeValue(t, B, env) ==
    LET t10 == 10 * t
        Ba == B * env.attack
        Bd == B * env.decay
        Br == B * env.release
        branch == EnvelopeBranch(t, B, env)
    IN  CASE branch = "attack" -> Min(Div(1000 * t10, Ba), 1000)
          [] branch = "decay" ->
               100 * env.sustain
               + Div(100 * (10 - env.sustain) * (Bd - (t10 - Ba)), Bd)
          [] branch = "release" ->
               Div(100 * env.sustain * (Br - (t10 - Ba - Bd)), Br)
          [] OTHER -> 0

(***************************************************************************)
(* The render callback `audio`.                                            *)
(***************************************************************************)
\* Volume without the test of playing.
VolumeIgnoringPlaying(a) == (500 * Min(a.envelope, 1000)) \div 1000

\* max_volume * envelope.min(1.0) while playing, else 0.0
Volume(a) == IF a.playing THEN (500 * Min(a.envelope, 1000)) \div 1000 ELSE 0

\* (2 pi phase).sin() in thousandths, by Bhaskara's rational approximation
\* sin(pi u) = 16 u (1-u) / (5 - 4 u (1-u)) on each half turn.
SineAmp(phase) ==
    LET n == IF 2 * phase <= PhaseSteps THEN 2 * phase ELSE 2 * phase - PhaseSteps
        m == n * (PhaseSteps - n)
        half == (16000 * m) \div (5 * PhaseSteps * PhaseSteps - 4 * m)
    IN  IF 2 * phase <= PhaseSteps THEN half ELSE 0 - half

\* AudioFrame with the increment added to hz instead of phase.
AudioFrameHzTypo(a, vol) ==
    [sample |-> (SineAmp(a.phase) * vol) \div 1000,
     audio |-> [a EXCEPT !.hz = a.hz + (a.hz * PhaseSteps) \div SampleRate]]

\* One frame of the loop: the sample written to every channel, and the
\* Audio struct after the phase increment and wrap.
AudioFrame(a, vol) ==
    LET inc == (a.hz * PhaseSteps) \div SampleRate
        p == a.phase + inc
    IN  [sample |-> (SineAmp(a.phase) * vol) \div 1000,
         audio |-> [a EXCEPT !.phase = IF p >= PhaseSteps THEN p - PhaseSteps ELSE p]]

(***************************************************************************)
(* Cards, hand and chain.                                                  *)
(***************************************************************************)
CardIds == 1..4

\* position finding the last card of the kind.
PositionLast(ch, kind) ==
    IF \E i \in 1..Len(ch) : ch[i].class.kind = kind
      THEN CHOOSE i \in 1..Len(ch) :
             /\ ch[i].class.kind = kind
             /\ \A j \in (i + 1)..Len(ch) : ch[j].class.kind # kind
      ELSE 0

\* chain.iter().position(|card| matches!(card.class, kind)), 0 for None
Position(ch, kind) ==
    IF \E i \in 1..Len(ch) : ch[i].class.kind = kind
      THEN CHOOSE i \in 1..Len(ch) :
             /\ ch[i].class.kind = kind
             /\ \A j \in 1..(i - 1) : ch[j].class.kind # kind
      ELSE 0

RemoveAt(s, i) == SubSeq(s, 1, i - 1) \o SubSeq(s, i + 1, Len(s))

\* handle_drag: the dragged card's target follows the mouse (side my).
HandleDrag(cs, sel, pressed, my) ==
    IF sel # 0 /\ pressed /\ cs[sel].dragging
      THEN [cs EXCEPT ![sel].y_targ = my]
      ELSE cs

\* the is_updating flag after handle_drag
DragUpdating(cs, sel, pressed, upd) ==
    upd \/ (sel # 0 /\ pressed /\ cs[sel].dragging)

\* card.clone() as the chain keeps it: the class with its state.  A clone's
\* geometry is read by nothing but the equality of remove_card_from_collections.
Clone(card) == [class |-> card.class]

\* update_cards: the chain is rebuilt from clones of the cards above the threshold.
RECURSIVE CloneChain(_, _)
CloneChain(cs, i) ==
    IF i > Len(cs) THEN <<>>
    ELSE (IF cs[i].y = 1 THEN <<Clone(cs[i])>> ELSE <<>>) \o CloneChain(cs, i + 1)

UpdateCards(cs, ch, upd) == IF upd THEN CloneChain(cs, 1) ELSE ch

\* lerp: every card moves 0.3 of the way to its target; a card on the other
\* side of the threshold than its target crosses on this call or a later one.
Moving(cs) == {i \in CardIds : cs[i].y # cs[i].y_targ}

Lerp(cs, crossed) ==
    [i \in CardIds |-> IF i \in crossed THEN [cs[i] EXCEPT !.y = cs[i].y_targ] ELSE cs[i]]

(***************************************************************************)
(* The state after model().                                                *)
(***************************************************************************)
\* model() with the cards cs; upd is is_updating.
InitDeck(b, cs, upd) ==
    /\ cards = cs
    /\ chain = <<>>
    /\ is_mouse_pressed = FALSE
    /\ is_updating = upd
    /\ selected_card = 0
    /\ bpm = b
    /\ beat_time = 0
    /\ time_since_last_update = 0
    /\ pc = "idle"
    /\ panicked = FALSE
    /\ queue = <<>>
    /\ is_playing = TRUE
    /\ audio = InitAudio
    /\ volume = 0
    /\ frames_left = 0
    /\ sample = 0
    /\ shadow = Ctl(InitAudio)
    /\ beat_reset = FALSE
    /\ seq_advances = 0
    /\ presses = 0

InitModel(b) == InitDeck(b, InitCards, FALSE)

Init == InitModel(120)

(***************************************************************************)
(* Mouse and key handlers.  They run on the control thread, between two    *)
(* updates.                                                                *)
(***************************************************************************)
\* remove_card_from_collections: the first clone equal to the card leaves the
\* chain.  Card equality compares the geometry too, which clones do not keep
\* here, so the clone of the same class may or may not be found equal.
RemoveCardFromCollections(ch, card) ==
    {ch} \cup {RemoveAt(ch, i) : i \in {j \in 1..Len(ch) : ch[j].class = card.class}}

\* mouse_pressed with the mouse over card hit (0: over no card)
MousePressed ==
    /\ pc = "idle" /\ ~panicked
    /\ selected_card = 0
    /\ presses < MaxPresses
    /\ presses' = presses + 1
    /\ \E hit \in {0} \cup CardIds :
         /\ is_mouse_pressed' = TRUE
         /\ IF hit = 0
              THEN UNCHANGED <<cards, chain, selected_card, is_updating>>
              ELSE LET cs == [cards EXCEPT ![hit].dragging = TRUE]
                   IN  /\ cards' = cs
                       /\ selected_card' = hit
                       /\ chain' \in RemoveCardFromCollections(chain, cs[hit])
                       /\ is_updating' = TRUE
    /\ UNCHANGED <<clock, pc, panicked, queue, is_playing, render, shadow,
                   seq_advances>>

\* mouse_released; snap is the side of the threshold of the nearest grid slot
MouseReleased ==
    /\ pc = "idle" /\ ~panicked
    /\ is_mouse_pressed \/ selected_card # 0
    /\ is_mouse_pressed' = FALSE
    /\ IF selected_card # 0
         THEN /\ selected_card' = 0
              /\ IF cards[selected_card].dragging
                   THEN \E snap \in {0, 1} :
                          /\ cards' = [cards EXCEPT ![selected_card].y_targ = snap,
                                                    ![selected_card].dragging = FALSE]
                          /\ is_updating' = TRUE
                   ELSE UNCHANGED <<cards, is_updating>>
         ELSE UNCHANGED <<cards, selected_card, is_updating>>
    /\ UNCHANGED <<chain, clock, pc, panicked, queue, is_playing, render, history>>

\* key_pressed(Key::Space): pause a playing stream, play a paused one
KeyPressed ==
    /\ pc = "idle" /\ ~panicked
    /\ is_playing' = ~is_playing
    /\ UNCHANGED <<ui, clock, pc, panicked, queue, render, history>>

(***************************************************************************)
(* update.  The three groups of sends of update_sound are separate steps,  *)
(* because the render thread runs between them.                            *)
(***************************************************************************)
\* Sending with the closure handed to the stream twice.
SendingDuplicated(c, next) ==
    \/ /\ queue' = Send(Send(queue, c), c)
       /\ shadow' = ApplyCmd(shadow, c)
       /\ pc' = next
       /\ UNCHANGED panicked
    \/ /\ panicked' = TRUE
       /\ UNCHANGED <<pc, queue, shadow>>

\* stream.send(closure).unwrap(): send returns Ok and the closure waits for
\* the render thread, or it returns Err (the stream's receiving side is gone)
\* and unwrap panics the control thread.
Sending(c, next) ==
    \/ /\ queue' = Send(queue, c)
       /\ shadow' = ApplyCmd(shadow, c)
       /\ pc' = next
       /\ UNCHANGED panicked
    \/ /\ panicked' = TRUE
       /\ UNCHANGED <<pc, queue, shadow>>

\* The command of lines 475-479.
PlayingCommand(ch) == SetPlaying(Position(ch, "Oscillator") # 0)

\* EnvelopeCommand with silence for a chain without envelope.
EnvelopeCommandSilent(ch, t, B) ==
    LET index == Position(ch, "Envelope")
    IN  IF index # 0 THEN SetEnvelope(EnvelopeValue(t, B, ch[index].class))
        ELSE SetEnvelope(0)

\* The command of lines 502-534.
EnvelopeCommand(ch, t, B) ==
    LET index == Position(ch, "Envelope")
    IN  IF index # 0 THEN SetEnvelope(EnvelopeValue(t, B, ch[index].class))
        ELSE SetEnvelope(1000)

\* update up to the first send of update_sound: the beat clock, handle_drag,
\* update_cards, lerp, the four position scans and the playing command.
UpdateBegin ==
    /\ pc = "idle" /\ ~panicked
    /\ Len(queue) + 3 <= MaxQueue
    /\ \E e \in 0..MaxElapsed, my \in {0, 1} :
         LET B == BeatDuration(bpm)
             dragged == HandleDrag(cards, selected_card, is_mouse_pressed, my)
             upd == DragUpdating(cards, selected_card, is_mouse_pressed, is_updating)
             rebuilt == UpdateCards(dragged, chain, upd)
         IN  /\ time_since_last_update' = 0
             /\ beat_time' = BeatAdvance(beat_time, e, B)
             /\ beat_reset' = (beat_time + e >= B)
             /\ chain' = rebuilt
             /\ is_updating' = FALSE
             /\ \E crossed \in SUBSET Moving(dragged) : cards' = Lerp(dragged, crossed)
             /\ Sending(PlayingCommand(rebuilt), "frequency")
    /\ UNCHANGED <<is_mouse_pressed, selected_card, bpm, is_playing, render,
                   seq_advances, presses>>

HzRange ==
    UNION {(((440 * m) \div 10) - MaxDrift)..(((440 * m) \div 10) + MaxDrift) :
             m \in {8, 10, 12}}

\* lines 481-500: the sequencer's next value on beat_time == 0.0, the drift
\* hz_increment = sin(app.time) when the chain has no sequencer; the drift is
\* followed while hz stays in range.
UpdateFrequencyWithin(range) ==
    /\ pc = "frequency" /\ ~panicked
    /\ LET index == Position(chain, "Sequencer")
       IN  IF index # 0
             THEN IF beat_time = 0
                    THEN IF chain[index].class.step >= Len(chain[index].class.sequence)
                           THEN \* self.sequence[self.step] is out of bounds
                                /\ panicked' = TRUE
                                /\ pc' = "next_value"
                                /\ UNCHANGED <<chain, seq_advances, queue, shadow>>
                           ELSE LET r == NextValue(chain[index].class)
                                IN  /\ chain' = [chain EXCEPT ![index].class = r.seq]
                                    /\ seq_advances' =
                                         (seq_advances + 1) % Len(r.seq.sequence)
                                    /\ Sending(SetHz(r.value), "envelope")
                    ELSE /\ pc' = "envelope"
                         /\ UNCHANGED <<chain, seq_advances, queue, shadow, panicked>>
             ELSE /\ \E hz_increment \in {-1, 0, 1} :
                       /\ hz_increment = 0 \/ shadow.hz + hz_increment \in range
                       /\ Sending(Drift(hz_increment), "envelope")
                  /\ UNCHANGED <<chain, seq_advances>>
    /\ UNCHANGED <<cards, is_mouse_pressed, is_updating, selected_card, clock,
                   is_playing, render, presses>>

UpdateFrequency == UpdateFrequencyWithin(HzRange)

\* lines 502-542: the envelope command; the delay branch does nothing.
UpdateEnvelope ==
    /\ pc = "envelope" /\ ~panicked
    /\ Sending(EnvelopeCommand(chain, beat_time, BeatDuration(bpm)), "idle")
    /\ UNCHANGED <<ui, clock, is_playing, render, seq_advances, presses>>

(***************************************************************************)
(* The render thread.                                                      *)
(***************************************************************************)
\* The stream calls the render function of a playing stream: the waiting
\* closures run first, then `audio` starts with the volume of this buffer.
RenderBegin ==
    /\ frames_left = 0 /\ is_playing /\ ~panicked
    /\ audio' = Drain(audio, queue)
    /\ queue' = <<>>
    /\ volume' = Volume(audio')
    /\ frames_left' = FramesPerBuffer
    /\ UNCHANGED <<ui, clock, pc, panicked, is_playing, sample, history>>

\* RenderFrame with a loop that never reaches the end of the buffer.
RenderFrameNoProgress ==
    /\ frames_left > 0 /\ ~panicked
    /\ LET r == AudioFrame(audio, volume)
       IN  /\ audio' = r.audio
           /\ sample' = r.sample
    /\ UNCHANGED <<ui, clock, pc, panicked, queue, is_playing, volume,
                   frames_left, history>>

\* One iteration of `for frame in buffer.frames_mut()`.
RenderFrame ==
    /\ frames_left > 0 /\ ~panicked
    /\ LET r == AudioFrame(audio, volume)
       IN  /\ audio' = r.audio
           /\ sample' = r.sample
    /\ frames_left' = frames_left - 1
    /\ UNCHANGED <<ui, clock, pc, panicked, queue, is_playing, volume, history>>

Next ==
    \/ MousePressed
    \/ MouseReleased
    \/ KeyPressed
    \/ UpdateBegin
    \/ UpdateFrequency
    \/ UpdateEnvelope
    \/ RenderBegin
    \/ RenderFrame

Spec == Init /\ [][Next]_vars

(***************************************************************************)
(* The beat clock alone: lines 363-373 of update, for every tempo of       *)
(* BpmSet and every elapsed time up to MaxElapsed.                         *)
(***************************************************************************)
BpmSet == {15, 20, 24, 30, 40, 60, 80, 120, 240}

InitClock == \E b \in BpmSet : InitModel(b)

ClockStep ==
    /\ \E e \in 0..MaxElapsed :
         /\ time_since_last_update' = e
         /\ beat_time' = BeatAdvance(beat_time, e, BeatDuration(bpm))
         /\ beat_reset' = (beat_time + e >= BeatDuration(bpm))
    /\ UNCHANGED <<ui, bpm, pc, panicked, queue, is_playing, render, history>>

NextClock == ClockStep

SpecClock == InitClock /\ [][NextClock]_vars

(***************************************************************************)
(* The envelope alone: the beat clock of update, update_cards and the      *)
(* envelope command of update_sound (lines 363-373, 428-442, 502-534), for *)
(* the cards of model() with every Envelope of EnvelopeSet in the place of *)
(* the envelope card, after a click has set is_updating.  The queue holds  *)
(* the envelope command of the last tick.                                   *)
(***************************************************************************)
EnvelopeSet ==
    {[kind |-> "Envelope", attack |-> a, decay |-> d, sustain |-> s, release |-> r] :
       a \in {0, 1, 5}, d \in {0, 2, 10}, s \in {0, 4, 10}, r \in {0, 3, 5}}

\* tempos whose beat is 2, 10, 20 or 40 time units long
EnvelopeBpmSet ==
    {b \in 1..240 : /\ (120 * HalfSecondUnits) % b = 0
                    /\ BeatDuration(b) \in {2, 10, 20, 40}}

InitEnvelope ==
    \E b \in EnvelopeBpmSet, env \in EnvelopeSet :
        InitDeck(b, [InitCards EXCEPT ![3] = CardNew(1, env)], TRUE)

EnvelopeStep ==
    /\ pc = "idle" /\ ~panicked
    /\ \E e \in 0..MaxElapsed :
         LET B == BeatDuration(bpm)
             rebuilt == UpdateCards(cards, chain, is_updating)
             t == BeatAdvance(beat_time, e, B)
             c == EnvelopeCommand(rebuilt, t, B)
         IN  /\ time_since_last_update' = e
             /\ beat_time' = t
             /\ beat_reset' = (beat_time + e >= B)
             /\ chain' = rebuilt
             /\ is_updating' = FALSE
             /\ queue' = Send(<<>>, c)
             /\ shadow' = ApplyCmd(shadow, c)
    /\ UNCHANGED <<cards, is_mouse_pressed, selected_card, bpm, pc, panicked,
                   is_playing, render, seq_advances, presses>>

NextEnvelope == EnvelopeStep

SpecEnvelope == InitEnvelope /\ [][NextEnvelope]_vars

(***************************************************************************)
(* Other cards: update and the render thread on the cards of model() with  *)
(* a second or an empty Sequencer or a second Envelope among them, after a *)
(* click has set is_updating.  The mouse is left alone, so the chain holds *)
(* all four cards from the first update on.                                *)
(***************************************************************************)
Sequencer2Class == [kind |-> "Sequencer", sequence |-> <<12, 8>>, step |-> 0]

EmptySequencerClass == [kind |-> "Sequencer", sequence |-> <<>>, step |-> 0]

Envelope2Class ==
    [kind |-> "Envelope", attack |-> 10, decay |-> 2, sustain |-> 4, release |-> 3]

DeckSet ==
    {<<CardNew(1, OscillatorClass), CardNew(1, SequencerClass),
       CardNew(1, Sequencer2Class), CardNew(1, EnvelopeClass)>>,
     <<CardNew(1, OscillatorClass), CardNew(1, Envelope2Class),
       CardNew(1, EnvelopeClass), CardNew(1, DelayClass)>>,
     <<CardNew(1, OscillatorClass), CardNew(1, EmptySequencerClass),
       CardNew(1, EnvelopeClass), CardNew(1, DelayClass)>>}

InitChain == \E deck \in DeckSet : InitDeck(120, deck, TRUE)

NextChain ==
    \/ UpdateBegin
    \/ UpdateFrequency
    \/ UpdateEnvelope
    \/ RenderBegin
    \/ RenderFrame

SpecChain == InitChain /\ [][NextChain]_vars

(***************************************************************************)
(* A long drift: update and the render thread from the state after         *)
(* model(), the chain empty, with the drift of hz followed from 440 down   *)
(* to -MaxNegativeHz, and the phase followed until it leaves [0, 1).       *)
(***************************************************************************)
DriftRange == (0 - MaxNegativeHz)..(440 + MaxDrift)

UpdateFrequencyDrifting == UpdateFrequencyWithin(DriftRange)

PhaseFrame ==
    /\ audio.phase \in 0..(PhaseSteps - 1)
    /\ RenderFrame

NextPhase ==
    \/ UpdateBegin
    \/ UpdateFrequencyDrifting
    \/ UpdateEnvelope
    \/ RenderBegin
    \/ PhaseFrame

SpecPhase == Init /\ [][NextPhase]_vars

(***************************************************************************)
(* Ticks, renders and Space-key toggles under the scheduling of the two    *)
(* threads: the control loop keeps updating, a render that has begun       *)
(* writes all its frames, and a stream that is playing again and again is  *)
(* called to render again and again.  Key presses are left to the user.    *)
(***************************************************************************)
NextLive ==
    \/ KeyPressed
    \/ UpdateBegin
    \/ UpdateFrequency
    \/ UpdateEnvelope
    \/ RenderBegin
    \/ RenderFrame

SpecLive ==
    /\ Init
    /\ [][NextLive]_vars
    /\ WF_vars(UpdateBegin)
    /\ WF_vars(UpdateFrequency)
    /\ WF_vars(UpdateEnvelope)
    /\ SF_vars(RenderBegin)
    /\ WF_vars(RenderFrame)

(***************************************************************************)
(* Properties.                                                             *)
(***************************************************************************)
SequencersOf(ch) ==
    {ch[i].class : i \in {j \in 1..Len(ch) : ch[j].class.kind = "Sequencer"}}

RECURSIVE Advanced(_, _)
Advanced(seq, n) == IF n = 0 THEN seq ELSE Advanced(NextValue(seq).seq, n - 1)

C2_NoCommandMidBuffer ==
    /\ [](frames_left > 0 => volume = Volume(audio))
    /\ [][/\ (frames_left > 0 => Ctl(audio') = Ctl(audio))
          /\ (frames_left = 0 /\ frames_left' > 0 =>
                /\ queue' = <<>>
                /\ Ctl(audio') = Ctl(Drain(audio, queue))
                /\ sample' = sample)]_vars

\* A tick has sent a command while a buffer is between its two samples.
C2_Witness == frames_left = 1 /\ queue # <<>> /\ pc # "idle"

\* C3: a failed send is dropped silently: no tick ends in a panic.
C3_SendFailureSilent == ~panicked

C5_MutedWithoutOscillator ==
    [][/\ (pc = "idle" /\ pc' = "frequency" /\ Position(chain', "Oscillator") = 0 =>
             queue' = Append(queue, SetPlaying(FALSE)))
       /\ (frames_left' < frames_left /\ ~audio.playing => sample' = 0)]_vars

\* A sequencer chain without the oscillator, muted after it has played, with
\* a sample still to write at a phase where the sine is not 0.
C5_Witness ==
    /\ Position(chain, "Oscillator") = 0 /\ Position(chain, "Sequencer") # 0
    /\ ~audio.playing /\ audio.envelope > 0
    /\ frames_left = 1 /\ SineAmp(audio.phase) # 0

\* C6: next_value is called only on a tick whose clock update reset
\* beat_time to 0.
C6_AdvanceOnlyOnReset == [][seq_advances' # seq_advances => beat_reset]_vars

\* C7: next_value returns sequence[step] and sets step to (step + 1) mod len;
\* step stays in 0..len-1; after len calls step is back and the next call
\* returns the same element (0.8 for [0.8, 1.0, 1.2, 1.0] at step 0); the
\* tick that calls it sends 440 times the returned value.
C7_NextValueCycles ==
    /\ [](\A q \in SequencersOf(chain) \cup SequencersOf(cards) :
            LET len == Len(q.sequence)
                r == NextValue(q)
            IN  /\ q.step \in 0..(len - 1)
                /\ r.value = q.sequence[q.step + 1]
                /\ r.seq.step = (q.step + 1) % len
                /\ r.seq.sequence = q.sequence
                /\ Advanced(q, len).step = q.step
                /\ NextValue(Advanced(q, len)).value = r.value
                /\ (q.step = 0 => NextValue(Advanced(q, 4)).value = 8))
    /\ [][seq_advances' # seq_advances /\ ~panicked' =>
            LET i == Position(chain, "Sequencer")
            IN  /\ queue' = Append(queue,
                     SetHz(chain[i].class.sequence[chain[i].class.step + 1]))
                /\ chain'[i].class.step =
                     (chain[i].class.step + 1) % Len(chain[i].class.sequence)]_vars

\* The sequencer of the chain has returned 0.8, 1.0 and 1.2 and stands at
\* its last step.
C7_Witness ==
    /\ \E q \in SequencersOf(chain) : q.step = 3
    /\ shadow.hz = 528

\* C8: the step of the chain's sequencer is the number of times it has been
\* advanced, modulo the length of its sequence, across every rebuild of the
\* chain.
C8_StepPersists == \A q \in SequencersOf(chain) : q.step = seq_advances

\* C9: after every clock update 0 <= beat_time < beat_duration = 60 / bpm.
C9_BeatTimeInRange == 0 <= beat_time /\ beat_time < BeatDuration(bpm)

\* A clock update has left beat_time one unit below a beat of 60 bpm.
C9_Witness ==
    bpm = 60 /\ beat_time = BeatDuration(bpm) - 1 /\ time_since_last_update > 0

\* C10: with e the elapsed time, the new beat_time is 0 when
\* beat_time + e >= beat_duration and beat_time + e otherwise.
C10_HardReset ==
    [][beat_time' = IF beat_time + time_since_last_update' >= BeatDuration(bpm)
                      THEN 0
                      ELSE beat_time + time_since_last_update']_vars

\* A reset has discarded an overshoot: the elapsed time alone was longer
\* than a beat.
C10_Witness ==
    beat_reset /\ beat_time = 0 /\ time_since_last_update > BeatDuration(bpm)

\* The envelope commands waiting in the queue, with the envelope they were
\* computed from.
ActiveEnvelope == chain[Position(chain, "Envelope")].class

\* C11: with an Envelope(a, d, s, r) active, the value sent on a tick is the
\* ADSR function of t = beat_time and B = beat_duration, in thousandths
\* rounded down: t/(B a) capped at 1 while t < B a; else
\* s + (1-s)(1 - (t - B a)/(B d)) while t < B (a+d); else
\* s (1 - (t - B (a+d))/(B r)) while t < B (a+d+r); else 0.  With a = 0.1,
\* d = 1.0, s = 0.4, r = 0.5 and t = 0.05 B it is 0.5.
C11_EnvelopeIsADSR ==
    queue # <<>> /\ Position(chain, "Envelope") # 0 =>
        LET env == ActiveEnvelope
            v == Head(queue).v
            B == BeatDuration(bpm)
            t10 == 10 * beat_time
            Ba == B * env.attack
            Bd == B * env.decay
            Br == B * env.release
            w == v - 100 * env.sustain
        IN  /\ Head(queue).op = "envelope"
            /\ IF t10 < Ba
                 THEN v * Ba <= 1000 * t10 /\ 1000 * t10 < (v + 1) * Ba
               ELSE IF t10 < Ba + Bd
                 THEN /\ w * Bd <= 100 * (10 - env.sustain) * (Ba + Bd - t10)
                      /\ 100 * (10 - env.sustain) * (Ba + Bd - t10) < (w + 1) * Bd
               ELSE IF t10 < Ba + Bd + Br
                 THEN /\ v * Br <= 100 * env.sustain * (Ba + Bd + Br - t10)
                      /\ 100 * env.sustain * (Ba + Bd + Br - t10) < (v + 1) * Br
               ELSE v = 0
            /\ (env = EnvelopeClass /\ 20 * beat_time = B => v = 500)

\* The envelope of model() in the middle of its attack, and in its decay.
C11_Witness ==
    /\ Position(chain, "Envelope") # 0 /\ ActiveEnvelope = EnvelopeClass
    /\ \/ 20 * beat_time = BeatDuration(bpm) /\ queue = <<SetEnvelope(500)>>
       \/ 2 * beat_time = BeatDuration(bpm) /\ queue = <<SetEnvelope(760)>>
    /\ BeatDuration(bpm) = 40

\* C12: with an Envelope active of which attack, decay or release is 0, the
\* branch taken on a tick never divides by 0, and the value sent is a number
\* from 0 to 1.
C12_NoDivisionByZero ==
    /\ Position(chain, "Envelope") # 0
    /\ 0 \in {ActiveEnvelope.attack, ActiveEnvelope.decay, ActiveEnvelope.release}
    => /\ EnvelopeDivisor(beat_time, BeatDuration(bpm), ActiveEnvelope) # 0
       /\ queue # <<>> => Head(queue).v \in 0..1000

\* A tick at the very end of the attack of an envelope without decay.
C12_Witness ==
    /\ Position(chain, "Envelope") # 0 /\ queue # <<>>
    /\ ActiveEnvelope.attack > 0 /\ ActiveEnvelope.decay = 0
    /\ ActiveEnvelope.release > 0 /\ ActiveEnvelope.sustain > 0
    /\ 10 * beat_time = BeatDuration(bpm) * ActiveEnvelope.attack

\* The first card of a kind in chain order, 0 when there is none.
FirstOf(ch, kind) ==
    LET of == {i \in 1..Len(ch) : ch[i].class.kind = kind}
    IN  IF of = {} THEN 0 ELSE CHOOSE i \in of : \A j \in of : i <= j

EmptySequencerFirst ==
    /\ FirstOf(chain, "Sequencer") # 0
    /\ chain[FirstOf(chain, "Sequencer")].class.sequence = <<>>

C16_FirstMatchOnly ==
    [][/\ pc \in {"frequency", "envelope"} =>
            /\ Len(chain') = Len(chain)
            /\ \A j \in 1..Len(chain) :
                  j # FirstOf(chain, chain[j].class.kind) => chain'[j] = chain[j]
       /\ seq_advances' # seq_advances =>
            LET first == chain[FirstOf(chain, "Sequencer")].class
                after == chain'[FirstOf(chain, "Sequencer")].class
            IN  /\ after.step = (first.step + 1) % Len(first.sequence)
                /\ ~panicked' =>
                     queue' = Append(queue, SetHz(first.sequence[first.step + 1]))
       /\ pc = "envelope" /\ pc' = "idle" /\ FirstOf(chain, "Envelope") # 0 =>
            LET env == chain[FirstOf(chain, "Envelope")].class
            IN  queue' = Append(queue,
                     SetEnvelope(EnvelopeValue(beat_time, BeatDuration(bpm), env)))
      ]_vars

\* Of two Sequencers the first has advanced and the second has not; or of
\* two Envelopes the first, in its attack, has set the envelope.
C16_Witness ==
    \/ \E i, j \in 1..Len(chain) :
         /\ i < j
         /\ chain[i].class.kind = "Sequencer" /\ chain[j].class.kind = "Sequencer"
         /\ chain[i].class.step = 1 /\ chain[j].class.step = 0
         /\ audio.hz = 352
    \/ \E i, j \in 1..Len(chain) :
         /\ i < j
         /\ chain[i].class.kind = "Envelope" /\ chain[j].class.kind = "Envelope"
         /\ chain[i].class # chain[j].class
         /\ beat_time = 1 /\ audio.envelope = 500

\* C14: phase is in [0, 1) in every state, whatever hz the drift and the
\* sequencer commands have made.
C14_PhaseInRange == 0 <= audio.phase /\ audio.phase < PhaseSteps

\* C15: no command changes phase: each waiting command, and all of them run
\* in order, leave phase as it is; the step that starts a buffer keeps the
\* phase the last buffer ended with; phase changes only in the step that
\* writes a frame, by hz/sample_rate with the wrap.
C15_CommandsKeepPhase ==
    /\ [](/\ \A i \in 1..Len(queue) : ApplyCmd(audio, queue[i]).phase = audio.phase
          /\ Drain(audio, queue).phase = audio.phase)
    /\ [][/\ frames_left = 0 => audio'.phase = audio.phase
          /\ audio'.phase # audio.phase =>
               LET p == audio.phase + (audio.hz * PhaseSteps) \div SampleRate
               IN  /\ frames_left' = frames_left - 1
                   /\ audio'.phase = IF p >= PhaseSteps THEN p - PhaseSteps ELSE p
         ]_vars

\* A buffer starts at half a turn with the frequency of the third step: the
\* command that set it ran on a phase that was not 0.
C15_Witness ==
    frames_left = FramesPerBuffer /\ audio.phase = 2 /\ audio.hz = 528

\* C17: every command is idempotent: run twice on the Audio struct, each
\* waiting command gives what it gives run once.
C17_CommandsIdempotent ==
    \A i \in 1..Len(queue) :
        ApplyCmd(ApplyCmd(audio, queue[i]), queue[i]) = ApplyCmd(audio, queue[i])

\* C18: with a Delay in the chain every frame written is
\* dry (1 - wet) + delayed wet, the Delay's buffer takes
\* dry + delayed feedback at write_index and write_index advances by 1
\* modulo the length of the buffer; with no Delay the frame is the dry
\* signal and the chain's cards are unchanged.
C18_DelayMix ==
    [][frames_left' < frames_left =>
         LET dry == (SineAmp(audio.phase) * volume) \div 1000
             i == FirstOf(chain, "Delay")
         IN  IF i # 0
               THEN LET dl == chain[i].class
                        delayed == dl.buffer[dl.write_index + 1]
                    IN  /\ sample' = (dry * (10 - dl.wet) + delayed * dl.wet) \div 10
                        /\ chain'[i].class.buffer[dl.write_index + 1] =
                             dry + (delayed * dl.feedback) \div 10
                        /\ chain'[i].class.write_index =
                             (dl.write_index + 1) % Len(dl.buffer)
               ELSE sample' = dry /\ chain' = chain]_vars

\* C19: the envelope step of a tick whose chain has no Envelope sends
\* exactly the command envelope = 1, at any beat_time, and no other step of
\* a tick sends an envelope command; a buffer rendered while playing with
\* this envelope has the full volume max_volume = 0.5.
C19_FullGainWithoutEnvelope ==
    /\ [][/\ pc = "envelope" /\ pc' = "idle" /\ FirstOf(chain, "Envelope") = 0 =>
               queue' = Append(queue, SetEnvelope(1000))
          /\ pc # "envelope" /\ Len(queue') > Len(queue) =>
               queue'[Len(queue')].op # "envelope"]_vars
    /\ [](frames_left > 0 /\ audio.playing /\ audio.envelope = 1000 => volume = 500)

\* In the middle of a beat, a chain with the oscillator and without the
\* envelope card plays a buffer at full volume.
C19_Witness ==
    /\ FirstOf(chain, "Envelope") = 0 /\ FirstOf(chain, "Oscillator") # 0
    /\ beat_time # 0 /\ pc = "idle" /\ queue = <<>>
    /\ audio.playing /\ audio.envelope = 1000
    /\ frames_left > 0 /\ volume = 500

\* C20: the frequency step of a tick sends, with a Sequencer in the chain,
\* exactly the command hz = 440 * (the sequencer's value) when the clock
\* update of the tick crossed the beat boundary and nothing otherwise, and
\* with no Sequencer exactly one drift command.
C20_FrequencyTarget ==
    [][pc = "frequency" /\ pc' = "envelope" =>
         LET i == FirstOf(chain, "Sequencer")
         IN  IF i # 0
               THEN IF beat_reset
                      THEN queue' = Append(queue,
                               SetHz(chain[i].class.sequence[chain[i].class.step + 1]))
                      ELSE queue' = queue
               ELSE \E inc \in {-1, 0, 1} : queue' = Append(queue, Drift(inc))]_vars

====
